---- MODULE Spec2Model ----
(***************************************************************************)
(* The how-to notebooks of the repository as a state machine: the          *)
(* agent/action graph of state-model.ipynb (pydantic state, no             *)
(* checkpointer) and of the persistence notebook (TypedDict state,         *)
(* MemorySaver checkpointer), the linear graphs of streaming-content.ipynb *)
(* (custom streaming, runtime configuration) and the prebuilt agent of     *)
(* streaming-events-from-within-tools.ipynb, driven by the cells that      *)
(* stream or invoke them.                                                  *)
(*                                                                         *)
(* What the notebooks define (state schema and reducer, nodes, edges,      *)
(* should_continue, compile arguments, configs, inputs, consumer loops) is *)
(* translated from the notebooks.  The executor, the checkpointer, the     *)
(* streaming modes and the prebuilt agent they call into are not part of   *)
(* the source tree; they are modelled from the specification (load latest  *)
(* checkpoint, merge input, run node, merge update, write checkpoint,      *)
(* follow edge, yield).                                                    *)
(***************************************************************************)
EXTENDS Integers, Sequences, FiniteSets, TLC

\* ---------------------------------------------------------------- bounds
\* Longest messages list a run may build.
MaxMsgs == 6
\* Most tool calls one model response carries.
MaxToolCalls == 2
\* Most non-empty token chunks one streamed model response carries.
MaxTokens == 1

\* ------------------------------------------------------------- constants
START == "__start__"
END == "__end__"

\* Absent "thread_id" key of a config / absent config.
NoThread == "none"

\* The thread ids the notebook uses.
Threads == {"2", "3"}

\* Contents of the human input messages the notebook sends.
Contents == {"hi! I'm bob", "what is my name?"}

\* The two compiled agent/action graphs.
Apps == {"state_model", "persistence"}

\* The linear graphs START -> "model" -> END of streaming-content.ipynb:
\* my_node with a StreamWriter, my_node dispatching custom events, and the
\* three _call_model graphs of the runtime-configuration part (no config
\* argument; configurable model; configurable model and system message).
StreamApps == {"custom_writer", "custom_event"}
ConfigApps == {"static_model", "config_model", "config_prompt"}
LinearApps == StreamApps \cup ConfigApps

\* agent = create_react_agent(llm, tools=tools), nodes "agent" and "tools".
ReactApp == "react"

AllApps == Apps \cup LinearApps \cup {ReactApp}

\* ------------------------------------------------------------- messages
HumanMessage(c) == [type |-> "human", content |-> c, tool_calls |-> 0]

\* The model's response; k is the number of tool calls it carries.
AIMessage(k) == [type |-> "ai", content |-> "response", tool_calls |-> k]

\* The search tool's result message.
ToolMessage == [type |-> "tool", content |-> "The answer to your question lies within.", tool_calls |-> 0]

\* SystemMessage(content=config["configurable"]["system_message"])
SystemMessage(c) == [type |-> "system", content |-> c, tool_calls |-> 0]

\* AIMessage(content=c) carrying k tool calls.
AIMessageWith(c, k) == [type |-> "ai", content |-> c, tool_calls |-> k]

\* An element of an input list that is not a BaseMessage.
NotAMessage == [type |-> "int", content |-> "42", tool_calls |-> 0]

\* messages[-1]
Last(s) == s[Len(s)]

\* Text built from pieces is the sequence of its pieces; the empty text is <<>>.
\* "".join(parts): the parts one after the other.
RECURSIVE Join(_)
Join(parts) == IF parts = <<>> THEN <<>> ELSE Head(parts) \o Join(Tail(parts))

\* sep.join(words): the words with sep between neighbours.
RECURSIVE JoinWith(_, _)
JoinWith(sep, words) ==
    IF words = <<>> THEN <<>>
    ELSE IF Len(words) = 1 THEN <<words[1]>>
    ELSE <<words[1], sep>> \o JoinWith(sep, Tail(words))

IsPrefix(s, t) == Len(s) <= Len(t) /\ SubSeq(t, 1, Len(s)) = s

\* The inputs of the notebooks: {"messages": [HumanMessage(content=...)]}.
Inputs == {<<HumanMessage(c)>> : c \in Contents}

\* The configs of the notebooks: {"configurable": {"thread_id": t}}, or none.
Configs == [thread_id : Threads \cup {NoThread}]

\* The inputs a graph is invoked with.  The pydantic graph is also given a
\* list whose element is not a message.
InputsOf(a) ==
    IF a = "state_model" THEN Inputs \cup {<<NotAMessage>>}
    ELSE IF a = "persistence" THEN Inputs
    ELSE IF a \in StreamApps THEN {<<HumanMessage("What are you thinking about?")>>}
    ELSE IF a \in ConfigApps THEN {<<HumanMessage("hi")>>, <<HumanMessage("hi"), HumanMessage("hi")>>}
    ELSE {<<HumanMessage(<<"what items are on the shelf?">>)>>}

\* A registry that also knows the name "mistral".
models_with_mistral ==
    [anthropic |-> "ChatAnthropic", openai |-> "ChatOpenAI", mistral |-> "ChatMistralAI"]

\* models = {"anthropic": model, "openai": openai_model}
models == [anthropic |-> "ChatAnthropic", openai |-> "ChatOpenAI"]

\* The values given under the configurable key "model": the two registered
\* names and one that is not registered.
ModelNames == {"anthropic", "openai", "mistral"}

\* The values given under the configurable key "system_message".
SystemPrompts == {"respond in italian"}

\* config["configurable"] of the runtime-configuration invocations: a dict
\* holding any of the keys "model" and "system_message"; without config it is
\* empty.
Configurables ==
    {cfg \in UNION {[D -> ModelNames \cup SystemPrompts] : D \in SUBSET {"model", "system_message"}} :
        /\ "model" \in DOMAIN cfg => cfg["model"] \in ModelNames
        /\ "system_message" \in DOMAIN cfg => cfg["system_message"] \in SystemPrompts}

\* The configs a graph is invoked with.
ConfigsOf(a) ==
    IF a = "persistence" THEN Configs
    ELSE IF a \in ConfigApps THEN Configurables
    ELSE {[thread_id |-> NoThread]}

\* ------------------------------------------------------ state and reducers
\* The fields the state schema of a graph declares: AgentState, State and
\* MessagesState all declare the one field messages.
StateSchema(a) == {"messages"}

\* A reducer that overwrites the field instead of appending to it.
operator_add_overwrite(left, right) == right

\* operator.add of the pydantic AgentState (state-model.ipynb).
operator_add(left, right) == left \o right

\* add_messages of the TypedDict State (persistence notebook):
\* "def add_messages(left, right): return left + right".
add_messages(left, right) == left \o right

\* Merging a node's partial update into the state with the field's reducer.
\* The pydantic AgentState and the AgentState of the runtime-configuration
\* graphs annotate messages with operator.add; State, MessagesState and the
\* prebuilt agent use add_messages.
\* A field of the update that the state holds is merged with the reducer;
\* another field of the update is taken as it is.
Merge(a, st, update) ==
    [f \in DOMAIN st \cup DOMAIN update |->
        IF f \notin DOMAIN update THEN st[f]
        ELSE IF f \notin DOMAIN st THEN update[f]
        ELSE IF a = "state_model" \/ a \in ConfigApps
             THEN operator_add(st[f], update[f])
             ELSE add_messages(st[f], update[f])]

\* ------------------------------------------------------------------ nodes
\* tools = [search]
tools == {"search"}

\* The tools bound to the model that call_model invokes:
\* model = model.bind_tools(tools) / bound_model = model.bind_tools(tools).
InvokedModelTools(a) == IF a = "state_model" THEN tools ELSE {}

\* model.bind_tools(tools): state-model.ipynb rebinds `model`, so call_model
\* invokes the model with tools; the persistence notebook binds the tools to
\* `bound_model` and call_model invokes `model`, which has no tools and so
\* cannot answer with a tool call.
ModelToolCalls(a) == IF InvokedModelTools(a) # {} THEN 0..MaxToolCalls ELSE {0}

\* A call_model that also returns the number of tool calls of the response.
call_model_extra(a, st, k) == [messages |-> <<AIMessage(k)>>, tool_calls |-> k]

\* call_model returning the response twice.
call_model_twice(a, st, k) == [messages |-> <<AIMessage(k), AIMessage(k)>>]

\* call_model: response = model.invoke(messages); return {"messages": [response]}
\* (the persistence notebook returns {"messages": response}; add_messages takes
\* a single message as a list of one).
call_model(a, st, k) == [messages |-> <<AIMessage(k)>>]

\* tool_node = ToolNode(tools): one ToolMessage per tool call of the last message.
tool_node(a, st) ==
    [messages |-> [i \in 1..Last(st.messages).tool_calls |-> ToolMessage]]

\* should_continue with its test inverted.
should_continue_inverted(a, st) ==
    LET last_message == Last(st.messages)
    IN IF a = "state_model"
       THEN (IF last_message.tool_calls # 0 THEN "end" ELSE "continue")
       ELSE (IF last_message.tool_calls # 0 THEN END ELSE "action")

\* should_continue: the key of the branch taken after "agent".
should_continue(a, st) ==
    LET last_message == Last(st.messages)
    IN IF a = "state_model"
       THEN (IF last_message.tool_calls = 0 THEN "end" ELSE "continue")
       ELSE (IF last_message.tool_calls = 0 THEN END ELSE "action")

\* The mapping with its two targets swapped.
PathMap_swapped(a) ==
    IF a = "state_model"
    THEN [k \in {"continue", "end"} |-> IF k = "continue" THEN END ELSE "action"]
    ELSE [k \in {"action", END} |-> IF k = END THEN "action" ELSE END]

\* The mapping given to add_conditional_edges.
PathMap(a) ==
    IF a = "state_model"
    THEN [k \in {"continue", "end"} |-> IF k = "continue" THEN "action" ELSE END]
    ELSE [k \in {"action", END} |-> k]

\* The edge table with the entry point set to "action".
Edges_start_at_action == {<<START, "action">>, <<"action", "agent">>}

\* The edge table with "action" wired to END instead of back to "agent".
Edges_action_to_end == {<<START, "agent">>, <<"action", END>>}

\* add_edge(START, "agent"); add_edge("action", "agent")
Edges == {<<START, "agent">>, <<"action", "agent">>}

Successor(n) == CHOOSE m \in {"agent", "action", END} : <<n, m>> \in Edges

\* The node that runs after node n returned and its update was merged into st.
Route(a, n, st) ==
    IF n = "agent" THEN PathMap(a)[should_continue(a, st)] ELSE Successor(n)

\* ----------------------------------------------------------- linear graphs
\* The edge table with "model" wired back to itself.
LinearEdges_loop == {<<START, "model">>, <<"model", "model">>}

\* add_edge(START, "model"); add_edge("model", END)
LinearEdges == {<<START, "model">>, <<"model", END>>}

LinearSuccessor(n) == CHOOSE m \in {"model", END} : <<n, m>> \in LinearEdges

\* One invocation of a chat model by a node: the model, the messages passed
\* to it, the content chunks it streamed (none when it is not streamed) and
\* the message it answered.
ModelCall(n, m, prompt, stream, response) ==
    [node |-> n, model |-> m, prompt |-> prompt, chunks |-> stream, response |-> response]

\* chunks of my_node
chunks == <<"Four", "score", "and", "seven", "years", "ago", "our", "fathers", "...">>

\* A dispatcher that yields every custom event under the name "custom".
CustomEvent_renamed(name, data) == [event |-> "on_custom_event", name |-> "custom", data |-> data]

\* The record of a custom event as astream_events yields it.
CustomEvent(name, data) == [event |-> "on_custom_event", name |-> name, data |-> data]

\* A my_node that never calls its writer and dispatches no event.
my_node_silent(a, st) ==
    [written |-> <<>>,
     dispatched |-> <<>>,
     update |-> [messages |-> <<AIMessageWith(JoinWith(" ", chunks), 0)>>]]

\* my_node: every chunk is passed to the StreamWriter (first graph) or
\* dispatched as the custom event "my_custom_event" with data {"chunk": chunk}
\* (second graph); the update is one AIMessage of the chunks joined by " ".
my_node(a, st) ==
    [written |-> IF a = "custom_writer" THEN [i \in 1..Len(chunks) |-> chunks[i]] ELSE <<>>,
     dispatched |-> IF a = "custom_event"
                    THEN [i \in 1..Len(chunks) |-> CustomEvent("my_custom_event", [chunk |-> chunks[i]])]
                    ELSE <<>>,
     update |-> [messages |-> <<AIMessageWith(JoinWith(" ", chunks), 0)>>]]

\* The contents a chat model of the runtime-configuration graphs answers.
Replies == {"Hello!", "Ciao!"}

\* A lookup that falls back to OpenAI.
model_name_openai(a, cfg) ==
    IF a = "static_model" THEN "anthropic"
    ELSE IF "model" \in DOMAIN cfg THEN cfg["model"] ELSE "openai"

\* model_name = config["configurable"].get("model", "anthropic"); the first
\* _call_model takes no config and invokes the global model, ChatAnthropic.
model_name(a, cfg) ==
    IF a = "static_model" THEN "anthropic"
    ELSE IF "model" \in DOMAIN cfg THEN cfg["model"] ELSE "anthropic"

\* The messages _call_model passes to the model: the state's messages, in the
\* third graph behind a SystemMessage when "system_message" is configured.
ModelInput(a, cfg, st) ==
    IF a = "config_prompt" /\ "system_message" \in DOMAIN cfg
    THEN <<SystemMessage(cfg["system_message"])>> \o st.messages
    ELSE st.messages

\* _call_model raises KeyError at models[model_name].
KeyError(a, cfg) == model_name(a, cfg) \notin DOMAIN models

\* A _call_model that returns the SystemMessage it built along with the
\* response.
_call_model_leaky(a, cfg, st, reply) ==
    LET response == AIMessageWith(reply, 0)
        messages == ModelInput(a, cfg, st)
    IN [calls |-> <<ModelCall("model", models[model_name(a, cfg)], messages, <<>>, response)>>,
        update |-> [messages |-> SubSeq(messages, 1, Len(messages) - Len(st.messages)) \o <<response>>]]

\* _call_model when the lookup succeeds and the model answers `reply`.
_call_model(a, cfg, st, reply) ==
    LET response == AIMessageWith(reply, 0)
    IN [calls |-> <<ModelCall("model", models[model_name(a, cfg)], ModelInput(a, cfg, st), <<>>, response)>>,
        update |-> [messages |-> <<response>>]]

\* ------------------------------------------------------------ react agent
\* The value of an attribute that is not set.
None == "None"

\* A chunk of a streamed model response.
AIMessageChunk(c) == [type |-> "AIMessageChunk", content |-> c, tool_calls |-> 0, name |-> None]

\* The result message of a tool call, named after the tool.
ToolResult(c, name) == [type |-> "tool", content |-> c, tool_calls |-> 0, name |-> name]

\* The tokens a model streams.
Tokens == {"Books", "Frames"}

\* The content chunks of one streamed model response: a first chunk of empty
\* content, then at most MaxTokens chunks of one token each.
TokenStreams ==
    {<< <<>> >> \o toks :
        toks \in UNION {[1..m -> {<<t>> : t \in Tokens}] : m \in 0..MaxTokens}}

\* The tool calls one response of the agent's model carries: tools = [get_items].
ReactToolCalls == {0, 1}

\* What stream_mode="messages" yields for a message: (message, metadata).
Emitted(msg, n) == <<msg, [langgraph_node |-> n]>>

\* Node "agent" of the prebuilt agent: the llm is called on the messages; its
\* response, streamed as `stream`, carries k tool calls.
react_agent(st, k, stream) ==
    LET response == AIMessageWith(Join(stream), k) @@ [name |-> None]
    IN [emitted |-> [i \in 1..Len(stream) |-> Emitted(AIMessageChunk(stream[i]), "agent")],
        calls |-> <<ModelCall("agent", "ChatOpenAI", st.messages, stream, response)>>,
        update |-> [messages |-> <<response>>]]

\* get_items: chunks = [chunk async for chunk in chain.astream(...)];
\* return "".join(chunk.content for chunk in chunks)
get_items(stream) == Join(stream)

\* A tools node whose streamed chunks carry the name of the tool.
react_tools_named(st, streams) ==
    LET k == Last(st.messages).tool_calls
        result(i) == ToolResult(get_items(streams[i]), "get_items")
        one(i) == [j \in 1..Len(streams[i]) |->
                      Emitted([AIMessageChunk(streams[i][j]) EXCEPT !.name = "get_items"], "tools")]
                  \o <<Emitted(result(i), "tools")>>
        RECURSIVE all(_)
        all(i) == IF i > k THEN <<>> ELSE one(i) \o all(i + 1)
    IN [emitted |-> all(1),
        calls |-> [i \in 1..k |-> ModelCall("tools", "ChatOpenAI", <<>>, streams[i], AIMessageWith(Join(streams[i]), 0))],
        update |-> [messages |-> [i \in 1..k |-> result(i)]]]

\* Node "tools" of the prebuilt agent: get_items runs once per tool call of
\* the last message; the chain inside it is given the callbacks of the run, so
\* its chunks are streamed from node "tools"; the tool's result is a message
\* named "get_items".
react_tools(st, streams) ==
    LET k == Last(st.messages).tool_calls
        result(i) == ToolResult(get_items(streams[i]), "get_items")
        one(i) == [j \in 1..Len(streams[i]) |-> Emitted(AIMessageChunk(streams[i][j]), "tools")]
                  \o <<Emitted(result(i), "tools")>>
        RECURSIVE all(_)
        all(i) == IF i > k THEN <<>> ELSE one(i) \o all(i + 1)
    IN [emitted |-> all(1),
        calls |-> [i \in 1..k |-> ModelCall("tools", "ChatOpenAI", <<>>, streams[i], AIMessageWith(Join(streams[i]), 0))],
        update |-> [messages |-> [i \in 1..k |-> result(i)]]]

\* The node after node n of the prebuilt agent: "tools" after an "agent"
\* response with tool calls, END after one without, "agent" after "tools".
ReactRoute(n, st) ==
    IF n = "agent"
    THEN (IF Last(st.messages).tool_calls = 0 THEN END ELSE "tools")
    ELSE "agent"

\* The loop over app.astream(..., stream_mode="custom"): print(chunk, end="|")
\* for every chunk.
CustomChunks(y) == y

\* The loop over app.astream_events(..., version="v2"):
\*   if event["event"] == "on_custom_event" and event["name"] == "my_custom_event":
\*       data = event["data"]
\*       if data: print(data["chunk"], end="|")
EventChunks(y) ==
    LET sel == SelectSeq(y, LAMBDA e : /\ e.event = "on_custom_event"
                                       /\ e.name = "my_custom_event"
                                       /\ DOMAIN e.data # {})
    IN [i \in 1..Len(sel) |-> sel[i].data.chunk]

\* The consumer loop of the notebook, first test: the contents it prints.
\*   if msg.content and not isinstance(msg, HumanMessage)
\*      and metadata["langgraph_node"] == "tools" and not msg.name
Printed(y) ==
    LET sel == SelectSeq(y, LAMBDA p : /\ p[1].content # <<>>
                                       /\ p[1].type # "human"
                                       /\ p[2].langgraph_node = "tools"
                                       /\ p[1].name = None)
    IN [i \in 1..Len(sel) |-> sel[i][1].content]

\* The consumer loop, second test: final_message after the loop.
\*   if msg.content and metadata["langgraph_node"] == "agent":
\*       final_message += msg.content
final_message(y) ==
    LET sel == SelectSeq(y, LAMBDA p : p[1].content # <<>> /\ p[2].langgraph_node = "agent")
    IN Join([i \in 1..Len(sel) |-> sel[i][1].content])

\* ------------------------------------------------------------ persistence
\* Both graphs compiled without a checkpointer.
HasCheckpointer_never(a) == FALSE

\* workflow.compile() / workflow.compile(checkpointer=memory)
HasCheckpointer(a) == a = "persistence"

\* Every run keyed by the thread id of the first cell, whatever its config.
thread_id_reused(cfg) == "2"

\* config["configurable"]["thread_id"]
thread_id(cfg) == cfg.thread_id

\* memory = MemorySaver()
MemorySaver == [t \in Threads |-> <<>>]

\* Retrieve the latest checkpoint of a thread: the most recently stored one.
GetLatest(mem, t) == Last(mem[t])

\* A store that keeps only the newest checkpoint of a thread.
Put_overwrite(mem, t, st) ==
    IF t \in DOMAIN mem
    THEN [mem EXCEPT ![t] = <<[thread_id |-> t, seq |-> Len(@) + 1, state |-> st]>>]
    ELSE mem

\* A store that gives every checkpoint the first sequence position.
Put_same_seq(mem, t, st) ==
    IF t \in DOMAIN mem
    THEN [mem EXCEPT ![t] = Append(@, [thread_id |-> t, seq |-> 1, state |-> st])]
    ELSE mem

\* Store a checkpoint for (thread id, sequence position).
Put(mem, t, st) ==
    IF t \in DOMAIN mem
    THEN [mem EXCEPT ![t] = Append(@, [thread_id |-> t, seq |-> Len(@) + 1, state |-> st])]
    ELSE mem

\* The state a run starts from: the latest checkpoint of its thread, if any.
LoadState(a, cfg, mem) ==
    IF HasCheckpointer(a) /\ thread_id(cfg) \in DOMAIN mem /\ mem[thread_id(cfg)] # <<>>
    THEN GetLatest(mem, thread_id(cfg)).state
    ELSE [messages |-> <<>>]

\* An engine that accepts an invocation without a thread id.
Rejects_never(a, cfg) == FALSE

\* With a checkpointer every invocation must carry a thread id.
Rejects(a, cfg) == HasCheckpointer(a) /\ thread_id(cfg) = NoThread

\* The checkpointer after a node of the run completed with state st.
Checkpoint(a, cfg, mem, st) ==
    IF HasCheckpointer(a) THEN Put(mem, thread_id(cfg), st) ELSE mem

\* ----------------------------------------------------------------- engine
\* How the notebook consumes the runs of a graph: app.stream(...,
\* stream_mode="values"), app.astream(..., stream_mode="custom"),
\* app.astream_events(...), app.invoke(...), agent.astream(...,
\* stream_mode="messages").
StreamMode(a) ==
    IF a \in Apps THEN "values"
    ELSE IF a = "custom_writer" THEN "custom"
    ELSE IF a = "custom_event" THEN "events"
    ELSE IF a \in ConfigApps THEN "invoke"
    ELSE "messages"

\* An event of the run itself (start and end of the graph and of a node).
RunEvent(ev, name) == [event |-> ev, name |-> name, data |-> [run |-> name]]

\* A stream that yields nothing before the first node.
FirstYield_nothing(a, st) == <<>>

\* What the stream yields when a run has applied its input.
FirstYield(a, st) ==
    IF StreamMode(a) = "values" THEN <<st>>
    ELSE IF StreamMode(a) = "events" THEN <<RunEvent("on_chain_start", "LangGraph")>>
    ELSE <<>>

\* A stream of values that yields, for a node, the node's newest message only.
NodeYield_newest(a, n, emitted, st, next) ==
    IF StreamMode(a) = "values" THEN <<[messages |-> <<Last(st.messages)>>]>>
    ELSE IF StreamMode(a) = "events"
         THEN <<RunEvent("on_chain_start", n)>> \o emitted \o <<RunEvent("on_chain_end", n)>>
              \o (IF next = END THEN <<RunEvent("on_chain_end", "LangGraph")>> ELSE <<>>)
    ELSE IF StreamMode(a) = "invoke" THEN <<>>
    ELSE emitted

\* What the stream yields for a node n that emitted `emitted`, left the state
\* st and is followed by node `next`.
NodeYield(a, n, emitted, st, next) ==
    IF StreamMode(a) = "values" THEN <<st>>
    ELSE IF StreamMode(a) = "events"
         THEN <<RunEvent("on_chain_start", n)>> \o emitted \o <<RunEvent("on_chain_end", n)>>
              \o (IF next = END THEN <<RunEvent("on_chain_end", "LangGraph")>> ELSE <<>>)
    ELSE IF StreamMode(a) = "invoke" THEN <<>>
    ELSE emitted

\* A pydantic state that is never validated.
Validates_anything(a, st) == TRUE

\* The pydantic AgentState validates: every element of messages is a
\* BaseMessage.  The TypedDict states are not validated.
Validates(a, st) ==
    a = "state_model" =>
        \A i \in 1..Len(st.messages) : st.messages[i].type \in {"human", "ai", "tool", "system"}

\* The node after node n of graph a returned and its update was merged into st.
RouteOf(a, n, st) ==
    IF a \in Apps THEN Route(a, n, st)
    ELSE IF a \in LinearApps THEN LinearSuccessor(n)
    ELSE ReactRoute(n, st)

\* ------------------------------------------------------------ environment
\* The variables of os.environ that are followed: the two keys the notebooks
\* ask for and one variable no notebook touches.
EnvVars == {"ANTHROPIC_API_KEY", "OPENAI_API_KEY", "HOME"}

\* _set_env("ANTHROPIC_API_KEY"), _set_env("OPENAI_API_KEY")
ApiKeys == {"ANTHROPIC_API_KEY", "OPENAI_API_KEY"}

\* The values a variable can hold, and what can be typed at the prompt.
EnvValues == {"", "sk-1", "sk-2"}

\* The environments: the variables that are set, with their values.
Environs == UNION {[D -> EnvValues] : D \in SUBSET EnvVars}

\* os.environ.get(var)
environ_get(env, var) == IF var \in DOMAIN env THEN env[var] ELSE None

\* Python's `not x` for x a string or None.
Not(x) == x = None \/ x = ""

\* _set_env that asks only for a variable that is not set at all.
_set_env_if_absent(env, var, entered) ==
    IF var \notin DOMAIN env
    THEN [environ |-> [v \in DOMAIN env \cup {var} |-> IF v = var THEN entered ELSE env[v]],
          prompted |-> TRUE]
    ELSE [environ |-> env, prompted |-> FALSE]

\* def _set_env(var: str):
\*     if not os.environ.get(var):
\*         os.environ[var] = getpass.getpass(f"{var}: ")
\* with `entered` what getpass returns if it is called.
_set_env(env, var, entered) ==
    IF Not(environ_get(env, var))
    THEN [environ |-> [v \in DOMAIN env \cup {var} |-> IF v = var THEN entered ELSE env[v]],
          prompted |-> TRUE]
    ELSE [environ |-> env, prompted |-> FALSE]

\* No call of _set_env yet.
NoCall == [var |-> None, prompted |-> FALSE, entered |-> None]

\* The environment the graphs run in: the set-up cell has run and a key was
\* entered for each variable it asked for.
KeysEntered == [v \in EnvVars |-> "sk-1"]

\* ---------------------------------------------------------------- machine
VARIABLES
    app,       \* the compiled graph of the current run
    config,    \* the config of the current run
    input,     \* the input messages of the current run
    state,     \* the state of the current run
    pc,        \* the node to run next; "idle", END, "error" or "cancelled" between runs
    memory,    \* the MemorySaver: thread id -> checkpoints, oldest first
    executed,  \* the nodes the current run has executed, in order
    log,       \* per configured thread: every message of its runs, in order
    earlier,   \* log of the current run's thread as it was when the run began
    yielded,   \* what the stream of the current run has yielded, in order
    invoked,   \* the model invocations of the current run, in order
    environ,   \* os.environ: variable name -> value, for the variables that are set
    called     \* the latest call of _set_env: its argument, whether it prompted, what was entered

vars == <<app, config, input, state, pc, memory, executed, log, earlier, yielded, invoked,
          environ, called>>

Init ==
    /\ app = "state_model"
    /\ config = [thread_id |-> NoThread]
    /\ input = <<>>
    /\ state = [messages |-> <<>>]
    /\ pc = "idle"
    /\ memory = MemorySaver
    /\ executed = <<>>
    /\ log = [t \in Threads |-> <<>>]
    /\ earlier = <<>>
    /\ yielded = <<>>
    /\ invoked = <<>>
    /\ environ = KeysEntered
    /\ called = NoCall

Logged(lg, cfg, msgs) ==
    IF cfg.thread_id \in DOMAIN lg
    THEN [lg EXCEPT ![cfg.thread_id] = @ \o msgs]
    ELSE lg

\* A run of graph a with config cfg and input inp, up to the first node: the
\* run is rejected, or the state is loaded, the input is merged into it and
\* the edge from START is followed.
Start(a, cfg, inp) ==
    /\ app' = a
    /\ config' = cfg
    /\ input' = inp
    /\ executed' = <<>>
    /\ invoked' = <<>>
    /\ earlier' = (IF a = "persistence" /\ cfg.thread_id \in Threads
                   THEN log[cfg.thread_id] ELSE <<>>)
    /\ IF Rejects(a, cfg)
       THEN /\ pc' = "error"
            /\ yielded' = <<>>
            /\ UNCHANGED <<state, memory, log>>
       ELSE LET st == Merge(a, LoadState(a, cfg, memory), [messages |-> inp])
            IN /\ Len(st.messages) < MaxMsgs
               /\ (a = "persistence" /\ cfg.thread_id \in Threads) =>
                      Len(log[cfg.thread_id]) + Len(inp) < MaxMsgs
               /\ state' = st
               /\ pc' = RouteOf(a, START, st)
               /\ yielded' = FirstYield(a, st)
               /\ log' = (IF a = "persistence" THEN Logged(log, cfg, inp) ELSE log)
               /\ UNCHANGED memory
    /\ UNCHANGED <<environ, called>>

\* for event in app.stream({"messages": [input_message]}, config, stream_mode="values")
Stream ==
    /\ pc \in {"idle", END, "error"}
    /\ \E a \in Apps, cfg \in Configs :
        /\ a = "state_model" => cfg.thread_id = NoThread
        /\ \E inp \in InputsOf(a) : Start(a, cfg, inp)

\* The newest MaxMsgs elements of a list.
Newest(s) == IF Len(s) > MaxMsgs THEN SubSeq(s, Len(s) - MaxMsgs + 1, Len(s)) ELSE s

\* What every node execution does after the node returned `update`, having
\* emitted `emitted` and made the model invocations `calls`: merge the update,
\* write the checkpoint, follow the edge, yield.
\* A run without checkpointer can go on for ever, and its list of messages
\* grows with every node.  With long = FALSE a node executes only while the
\* list stays within MaxMsgs.  With long = TRUE such a run is followed without
\* end: the nodes and should_continue read the last message only, so behind
\* MaxMsgs the oldest messages and the oldest entries of `executed` are
\* dropped, and of what was yielded and invoked only the newest node's part is
\* kept, which leaves finitely many states.
Finish(long, n, update, emitted, calls) ==
    LET st == Merge(app, state, update)
        cut == long /\ app = "state_model"
        kept == IF cut THEN [messages |-> Newest(st.messages)] ELSE st
        next == RouteOf(app, n, st)
        over == cut /\ Len(st.messages) > MaxMsgs
    IN /\ cut \/ Len(st.messages) <= MaxMsgs
       /\ state' = kept
       /\ memory' = Checkpoint(app, config, memory, st)
       /\ pc' = next
       /\ executed' = (IF cut THEN Newest(Append(executed, n)) ELSE Append(executed, n))
       /\ yielded' = (IF over THEN <<>> ELSE yielded) \o NodeYield(app, n, emitted, kept, next)
       /\ invoked' = (IF over THEN <<>> ELSE invoked) \o calls
       /\ log' = (IF app = "persistence" THEN Logged(log, config, update.messages) ELSE log)
       /\ UNCHANGED <<app, config, input, earlier, environ, called>>

\* The node that is due raises: the run ends in error, nothing is updated.
Fail ==
    /\ pc' = "error"
    /\ UNCHANGED <<app, config, input, state, memory, executed, log, earlier, yielded, invoked,
                   environ, called>>

\* Node "agent" of the agent/action graphs.
Agent ==
    /\ pc = "agent"
    /\ app \in Apps
    /\ IF Validates(app, state)
       THEN \E k \in ModelToolCalls(app) :
                Finish(FALSE, "agent", call_model(app, state, k), <<>>,
                       <<ModelCall("agent", "ChatOpenAI", state.messages, <<>>, AIMessage(k))>>)
       ELSE Fail

\* Node "action".
Action ==
    /\ pc = "action"
    /\ IF Validates(app, state)
       THEN Finish(FALSE, "action", tool_node(app, state), <<>>, <<>>)
       ELSE Fail

Next == Stream \/ Agent \/ Action

Spec == Init /\ [][Next]_vars

\* Node "agent" of a run followed without end.
AgentLong ==
    /\ pc = "agent"
    /\ app \in Apps
    /\ IF Validates(app, state)
       THEN \E k \in ModelToolCalls(app) :
                Finish(TRUE, "agent", call_model(app, state, k), <<>>,
                       <<ModelCall("agent", "ChatOpenAI", state.messages, <<>>, AIMessage(k))>>)
       ELSE Fail

\* Node "action" of a run followed without end.
ActionLong ==
    /\ pc = "action"
    /\ IF Validates(app, state)
       THEN Finish(TRUE, "action", tool_node(app, state), <<>>, <<>>)
       ELSE Fail

LongNext == Stream \/ AgentLong \/ ActionLong

\* The executor keeps invoking the current node until END is reached: a node
\* that is due is executed.
LongSpec == Init /\ [][LongNext]_vars /\ WF_vars(AgentLong) /\ WF_vars(ActionLong)

\* ----------------------------------------------------------- cancellation
\* A consumer whose stopping lets the node that was due complete and write its
\* checkpoint.
Cease_late ==
    /\ pc \in {"agent", "action"}
    /\ pc' = "cancelled"
    /\ memory' = Checkpoint(app, config, memory, state)
    /\ UNCHANGED <<app, config, input, state, executed, log, earlier, yielded, invoked,
                   environ, called>>

\* The consumer of the stream stops iterating (leaves the for loop) after a
\* value it was handed and before END: the stream is a lazy sequence, so the
\* node that was due is not executed.
Cease ==
    /\ pc \in {"agent", "action"}
    /\ pc' = "cancelled"
    /\ UNCHANGED <<app, config, input, state, memory, executed, log, earlier, yielded, invoked,
                   environ, called>>

\* A session of app.stream cells on one graph and one config (one thread).
CancelInit ==
    /\ app \in Apps
    /\ config \in ConfigsOf(app)
    /\ input = <<>>
    /\ state = [messages |-> <<>>]
    /\ pc = "idle"
    /\ memory = MemorySaver
    /\ executed = <<>>
    /\ log = [t \in Threads |-> <<>>]
    /\ earlier = <<>>
    /\ yielded = <<>>
    /\ invoked = <<>>
    /\ environ = KeysEntered
    /\ called = NoCall

\* The next app.stream cell of the session, whether the run before it reached
\* END, was rejected or was left by its consumer.
StreamAgain ==
    /\ pc \in {"idle", END, "error", "cancelled"}
    /\ \E inp \in InputsOf(app) : Start(app, config, inp)

CancelNext == StreamAgain \/ Agent \/ Action \/ Cease

\* The runs of the agent/action graphs with consumers that may stop iterating.
CancelSpec == CancelInit /\ [][CancelNext]_vars

\* ------------------------------------------------------------- any input
\* The inputs a graph is invoked with and the empty list of messages.
AnyInputsOf(a) == InputsOf(a) \cup {<<>>}

\* app.stream({"messages": [...]}, config, stream_mode="values"), again and
\* again on one graph with one config, with any list of messages, the empty
\* one included.
StreamAny ==
    /\ pc \in {"idle", END, "error"}
    /\ \E inp \in AnyInputsOf(app) : Start(app, config, inp)

AnyNext == StreamAny \/ Agent \/ Action

AnySpec == CancelInit /\ [][AnyNext]_vars

\* ---------------------------------------------------------------- kernels
\* Each notebook runs in a kernel of its own: the graph its cells compile is
\* the one every run of the kernel uses.
KernelInit ==
    /\ app \in AllApps
    /\ config = [thread_id |-> NoThread]
    /\ input = <<>>
    /\ state = [messages |-> <<>>]
    /\ pc = "idle"
    /\ memory = MemorySaver
    /\ executed = <<>>
    /\ log = [t \in Threads |-> <<>>]
    /\ earlier = <<>>
    /\ yielded = <<>>
    /\ invoked = <<>>
    /\ environ = KeysEntered
    /\ called = NoCall

\* A cell that runs the graph: app.stream, app.astream, app.astream_events or
\* app.invoke with one of the graph's configs and inputs.
Invoke ==
    /\ pc \in {"idle", END, "error"}
    /\ \E cfg \in ConfigsOf(app), inp \in InputsOf(app) : Start(app, cfg, inp)

\* Node "model" of the linear graphs.
Model ==
    /\ pc = "model"
    /\ IF app \in StreamApps
       THEN LET r == my_node(app, state)
            IN Finish(FALSE, "model", r.update, r.written \o r.dispatched, <<>>)
       ELSE IF KeyError(app, config)
            THEN Fail
            ELSE \E reply \in Replies :
                    LET r == _call_model(app, config, state, reply)
                    IN Finish(FALSE, "model", r.update, <<>>, r.calls)

\* Node "agent" of the prebuilt agent.
ReactAgent ==
    /\ pc = "agent"
    /\ app = ReactApp
    /\ \E k \in ReactToolCalls, stream \in TokenStreams :
           LET r == react_agent(state, k, stream)
           IN Finish(FALSE, "agent", r.update, r.emitted, r.calls)

\* Node "tools" of the prebuilt agent.
Tools ==
    /\ pc = "tools"
    /\ \E streams \in [1..Last(state.messages).tool_calls -> TokenStreams] :
           LET r == react_tools(state, streams)
           IN Finish(FALSE, "tools", r.update, r.emitted, r.calls)

KernelNext == Invoke \/ Agent \/ Action \/ Model \/ ReactAgent \/ Tools

KernelSpec == KernelInit /\ [][KernelNext]_vars

\* ------------------------------------------------------------------ set-up
\* The set-up cell of a notebook, in any environment.
SetupInit ==
    /\ app = "state_model"
    /\ config = [thread_id |-> NoThread]
    /\ input = <<>>
    /\ state = [messages |-> <<>>]
    /\ pc = "idle"
    /\ memory = MemorySaver
    /\ executed = <<>>
    /\ log = [t \in Threads |-> <<>>]
    /\ earlier = <<>>
    /\ yielded = <<>>
    /\ invoked = <<>>
    /\ environ \in Environs
    /\ called = NoCall

\* _set_env("ANTHROPIC_API_KEY") or _set_env("OPENAI_API_KEY"): the cell can
\* be run again, and anything can be typed at its prompt.
SetEnv ==
    \E var \in ApiKeys, entered \in EnvValues :
        LET r == _set_env(environ, var, entered)
        IN /\ environ' = r.environ
           /\ called' = [var |-> var, prompted |-> r.prompted,
                         entered |-> IF r.prompted THEN entered ELSE None]
           /\ UNCHANGED <<app, config, input, state, pc, memory, executed, log, earlier,
                          yielded, invoked>>

SetupNext == SetEnv

SetupSpec == SetupInit /\ [][SetupNext]_vars

\* ------------------------------------------------------------------ claims
\* A step that executes a node of the current run.
NodeStep == Len(executed') = Len(executed) + 1

\* C1: after every execution of "agent" the successor is chosen on the updated
\* state: "action" runs next iff the last message carries at least one tool
\* call, otherwise the run is at END, and at END no further node of the run
\* executes.
C1_AgentSuccessor ==
    [][ /\ (executed' = Append(executed, "agent")) =>
              /\ (pc' = "action") <=> (Last(state'.messages).tool_calls >= 1)
              /\ (pc' # "action") => (pc' = END)
        /\ (pc = END) => ~NodeStep ]_vars

\* C1 witness: the second "agent" execution of a run asked for a tool again and
\* "action" is next.
C1_Witness ==
    /\ executed = <<"agent", "action", "agent">>
    /\ pc = "action"
    /\ Last(state.messages).tool_calls >= 1

\* C2: every execution of "action" is followed by an execution of "agent": the
\* run is never at END and never at "action" again directly after "action".
C2_ActionThenAgent ==
    \A i \in 1..Len(executed) :
        executed[i] = "action" =>
            IF i < Len(executed) THEN executed[i + 1] = "agent" ELSE pc = "agent"

\* C2 witness: "action" has run and "agent" has run after it.
C2_Witness ==
    /\ executed = <<"agent", "action", "agent">>
    /\ pc = END

\* C3: messages is append-only: the list held before a node ran is a prefix of
\* the list after the node's update is merged.
C3_MessagesAppendOnly ==
    [][NodeStep => IsPrefix(state.messages, state'.messages)]_vars

\* C3 witness: "action" merged two tool messages behind the input and the
\* model's response.
C3_Witness ==
    /\ executed = <<"agent", "action">>
    /\ Len(state.messages) = 4
    /\ state.messages[1].type = "human"
    /\ state.messages[2].type = "ai"

\* C4: with a checkpointer, the first "agent" execution of a run on thread T
\* sees all messages of the earlier runs on T, in order, followed by the new
\* input messages.
C4_RunStartsFromLatestCheckpoint ==
    (app = "persistence" /\ pc = "agent" /\ executed = <<>>)
        => state.messages = earlier \o input

\* C4 witness: thread "2" is resumed after two runs on it and one on thread "3".
C4_Witness ==
    /\ app = "persistence" /\ pc = "agent" /\ executed = <<>>
    /\ config.thread_id = "2"
    /\ Len(earlier) = 4
    /\ Len(log["3"]) = 2
    /\ Len(memory["2"]) = 2

\* C5: a run on a thread without stored checkpoint starts with no memory: its
\* first "agent" execution sees exactly the input messages of the run.
C5_FreshThreadHasNoMemory ==
    ( /\ app = "persistence" /\ pc = "agent" /\ executed = <<>>
      /\ config.thread_id \in Threads
      /\ memory[config.thread_id] = <<>> )
        => state.messages = input

\* C5 witness: a first run on thread "3" while thread "2" holds checkpoints.
C5_Witness ==
    /\ app = "persistence" /\ pc = "agent" /\ executed = <<>>
    /\ config.thread_id = "3"
    /\ memory["3"] = <<>>
    /\ memory["2"] # <<>>

\* C6: no step of a run on thread T changes the checkpoints of another thread.
C6_OtherThreadsUnchanged ==
    [][\A U \in Threads : U # config'.thread_id => memory'[U] = memory[U]]_vars

\* C6 witness: a run on thread "3" has written its checkpoint while thread "2"
\* holds checkpoints of its own.
C6_Witness ==
    /\ app = "persistence" /\ config.thread_id = "3"
    /\ executed = <<"agent">>
    /\ memory["3"] # <<>>
    /\ memory["2"] # <<>>

\* C7: with a checkpointer each node execution writes exactly one new
\* checkpoint for the run's thread, holding the state after the node's update
\* was merged, and nothing else writes a checkpoint.
C7_OneCheckpointPerNode ==
    [][ /\ (app = "persistence" /\ NodeStep) =>
              /\ Len(memory'[config.thread_id]) = Len(memory[config.thread_id]) + 1
              /\ Last(memory'[config.thread_id]).state = state'
              /\ Last(memory'[config.thread_id]).thread_id = config.thread_id
        /\ (memory' # memory) => NodeStep ]_vars

\* C7 witness: the second run on a thread has completed its node and the
\* thread's newest checkpoint holds the four messages.
C7_Witness ==
    /\ app = "persistence" /\ executed = <<"agent">>
    /\ Len(memory[config.thread_id]) = 2
    /\ Len(Last(memory[config.thread_id]).state.messages) = 4

\* C8: a stored checkpoint never changes and is never deleted: the checkpoints
\* of each thread only grow at the end.
C8_CheckpointsAppendOnly ==
    [][\A T \in Threads : IsPrefix(memory[T], memory'[T])]_vars

\* C8 witness: a thread holds three checkpoints, written by three runs.
C8_Witness == \E T \in Threads : Len(memory[T]) = 3

\* C9: with a checkpointer, an invocation without thread id is rejected: no
\* node executes and no checkpoint is written or modified.
C9_NoThreadIdRejected ==
    [][(app' = "persistence" /\ config'.thread_id = NoThread)
         => (pc' = "error" /\ executed' = <<>> /\ memory' = memory)]_vars

\* C9 witness: an invocation was rejected while a thread holds checkpoints.
C9_Witness ==
    /\ app = "persistence" /\ config.thread_id = NoThread
    /\ pc = "error"
    /\ memory["2"] # <<>>

\* C10 as stated: every run eventually reaches END, whatever the model answers.
C10_EveryRunReachesEnd == (pc = "agent") ~> (pc = END)

\* The model's responses of the current run: the messages of type "ai" behind
\* those of the earlier runs.
Responses ==
    LET n == Len(state.messages)
    IN {i \in 1..n : state.messages[i].type = "ai" /\ i > Len(earlier)}

\* C10 amended: a run is at END exactly when its latest "agent" execution
\* returned a response without tool calls; as long as every response carries
\* tool calls the run stays in the agent/action cycle.
C10_EndIffNoToolCalls ==
    /\ (pc = END) =>
           /\ executed # <<>> /\ Last(executed) = "agent"
           /\ Last(state.messages).tool_calls = 0
    /\ (pc \in {"agent", "action"}) =>
           \A i \in Responses : state.messages[i].tool_calls >= 1

\* C10 witness: a run that is still cycling after two responses with tool calls.
C10_Witness ==
    /\ executed = <<"agent", "action", "agent">>
    /\ pc = "action"
    /\ Cardinality(Responses) = 2

\* C11 as stated: every invocation of a linear graph executes "model" exactly
\* once and terminates, the final messages being the input messages followed
\* by the one message the node returned.
C11_EveryInvocationRunsModelOnce ==
    (app \in LinearApps /\ pc \in {END, "error"}) =>
        /\ executed = <<"model">>
        /\ Len(state.messages) = Len(input) + 1
        /\ IsPrefix(input, state.messages)
        /\ Last(state.messages).type = "ai"

\* The message node "model" returned in the run that is over.
ReturnedByModel ==
    IF app \in StreamApps
    THEN AIMessageWith(<<"Four", " ", "score", " ", "and", " ", "seven", " ", "years", " ",
                         "ago", " ", "our", " ", "fathers", " ", "...">>, 0)
    ELSE Last(invoked).response

\* C11 amended: in a linear graph the step of node "model" is the only node
\* step of a run and ends the run.  When the configured model name (by default
\* "anthropic") is registered in models, the node executes once, the run is at
\* END and the messages are the input messages followed by the one message the
\* node returned; otherwise the node raises, the run ends in error and the
\* messages stay the input messages.
C11_ModelOnceUnlessKeyError ==
    [][(app \in LinearApps /\ pc = "model") =>
          /\ executed = <<>>
          /\ state.messages = input
          /\ IF app \in ConfigApps /\ model_name(app, config) \notin {"anthropic", "openai"}
             THEN pc' = "error" /\ executed' = <<>> /\ state' = state
             ELSE /\ pc' = END
                  /\ executed' = <<"model">>
                  /\ state'.messages = input \o <<ReturnedByModel'>>
                  /\ Last(state'.messages).type = "ai"]_vars

\* C11 witness: the graph with the configurable model ran its node once on an
\* input of two messages and is at END.
C11_Witness ==
    /\ app = "config_model" /\ pc = END
    /\ executed = <<"model">>
    /\ Len(input) = 2 /\ Len(state.messages) = 3

\* C12: a stream of state values has yielded, after n node executions, n + 1
\* values: the first is the state with the input applied, its last message
\* being the last input message; each later one extends the one before it by
\* the update of the node executed: one response after "agent", one tool
\* message per tool call after "action".
C12_ValuesAfterInputAndEachNode ==
    (app \in Apps /\ pc # "idle" /\ ~(app = "persistence" /\ config.thread_id = NoThread)) =>
        /\ Len(yielded) = Len(executed) + 1
        /\ Last(yielded[1].messages) = Last(input)
        /\ Last(yielded) = state
        /\ \A i \in 1..Len(executed) :
              LET before == yielded[i].messages
                  after == yielded[i + 1].messages
                  added == SubSeq(after, Len(before) + 1, Len(after))
              IN /\ IsPrefix(before, after)
                 /\ IF executed[i] = "agent"
                    THEN Len(added) = 1 /\ added[1].type = "ai"
                    ELSE /\ Len(added) = Last(before).tool_calls
                         /\ \A j \in 1..Len(added) : added[j].type = "tool"

\* C12 witness: the run of the notebook: "agent", "action", "agent", four
\* values yielded.
C12_Witness ==
    /\ app = "state_model" /\ pc = END
    /\ executed = <<"agent", "action", "agent">>
    /\ Len(yielded) = 4
    /\ Last(yielded[1].messages).type = "human"
    /\ Last(yielded[3].messages).type = "tool"

\* C13: the stream of custom values of my_node has yielded, when the run is
\* over, the nine chunks passed to the StreamWriter, in list order, each once,
\* and nothing else; before the node ran it has yielded nothing.
C13_CustomYieldsWrittenChunks ==
    (app = "custom_writer" /\ pc \in {"model", END}) =>
        CustomChunks(yielded) =
            (IF pc = END
             THEN <<"Four", "score", "and", "seven", "years", "ago", "our", "fathers", "...">>
             ELSE <<>>)

\* C13 witness: the run is over and nine values were yielded, the last "...".
C13_Witness ==
    /\ app = "custom_writer" /\ pc = END
    /\ executed = <<"model">>
    /\ Len(yielded) = 9 /\ yielded[1] = "Four" /\ yielded[9] = "..."

\* C14: the chunks the loop over astream_events takes from the events with
\* event "on_custom_event" and name "my_custom_event" are the chunks the stream
\* of custom values yields for the same node: same values, order and number.
C14_CustomEventsEqualCustomStream ==
    (app = "custom_event" /\ pc = END) =>
        EventChunks(yielded) = CustomChunks(my_node("custom_writer", state).written)

\* C14 witness: the run is over; between the events of the run and of the
\* node the stream holds the nine custom events.
C14_Witness ==
    /\ app = "custom_event" /\ pc = END
    /\ Len(yielded) = 13
    /\ yielded[1].event = "on_chain_start"
    /\ yielded[3].event = "on_custom_event"
    /\ Len(EventChunks(yielded)) = 9

\* C15 as documented: after a run in which the tool ran, final_message is the
\* same as the output streamed from node "tools".
C15_FinalMessageIsToolOutput ==
    (app = ReactApp /\ pc = END /\ \E i \in 1..Len(executed) : executed[i] = "tools") =>
        final_message(yielded) = Join(Printed(yielded))

\* The non-empty content chunks of the model called inside get_items, in the
\* order of their emission.
ToolChunks ==
    LET calls == SelectSeq(invoked, LAMBDA call : call.node = "tools")
        all == Join([i \in 1..Len(calls) |-> calls[i].chunks])
    IN SelectSeq(all, LAMBDA content : content # <<>>)

\* C16: every streamed pair names "agent" or "tools" as its node, and the loop
\* has printed exactly the non-empty chunks of the model called inside
\* get_items, in emission order: no HumanMessage, no named message, no empty
\* content, nothing streamed from "agent".
C16_PrintsToolChunksOnly ==
    (app = ReactApp) =>
        /\ Printed(yielded) = ToolChunks
        /\ \A i \in 1..Len(yielded) :
              /\ yielded[i][2].langgraph_node \in {"agent", "tools"}
              /\ yielded[i][1].type = "tool" => yielded[i][2].langgraph_node = "tools"
        /\ Len(SelectSeq(yielded, LAMBDA p : p[2].langgraph_node = "agent" /\ p[1].content # <<>>))
             + Len(SelectSeq(yielded, LAMBDA p : p[1].name # None \/ p[1].content = <<>>))
             + Len(Printed(yielded)) = Len(yielded)

\* C16 witness: the tool ran twice in a run; the loop printed the token of the
\* first call and then that of the second, while "agent" streamed content too.
C16_Witness ==
    /\ app = ReactApp /\ pc = END
    /\ executed = <<"agent", "tools", "agent", "tools", "agent">>
    /\ Printed(yielded) = << <<"Books">>, <<"Frames">> >>
    /\ final_message(yielded) = <<"Frames">>

\* C17: in the graphs with a configurable model every execution of "model" has
\* invoked exactly one model: the one registered in models under the
\* configurable key "model" when the key is supplied, the Anthropic model when
\* there is no configuration or no such key.
C17_InvokesConfiguredModel ==
    (app \in {"config_model", "config_prompt"} /\ executed = <<"model">>) =>
        /\ Len(invoked) = 1
        /\ invoked[1].node = "model"
        /\ invoked[1].model =
              (IF "model" \in DOMAIN config
               THEN (IF config["model"] = "openai" THEN "ChatOpenAI" ELSE "ChatAnthropic")
               ELSE "ChatAnthropic")
        /\ "model" \in DOMAIN config => config["model"] \in {"anthropic", "openai"}

\* C17 witness: a run configured with a system message only has invoked the
\* Anthropic model.
C17_Witness ==
    /\ app = "config_prompt" /\ pc = END
    /\ executed = <<"model">>
    /\ DOMAIN config = {"system_message"}
    /\ invoked[1].model = "ChatAnthropic"

\* C18: the configuration is no part of the state: whatever the configuration,
\* no message of any state of the run is a SystemMessage, and the final messages are the
\* input messages followed by the model's response, while the model was passed
\* the SystemMessage of the configured system_message in front of the input
\* messages.
C18_ConfigurationStaysOutOfState ==
    (app \in ConfigApps /\ pc # "idle") =>
        /\ \A i \in 1..Len(state.messages) : state.messages[i].type # "system"
        /\ (pc = END) =>
              /\ state.messages = input \o <<invoked[1].response>>
              /\ invoked[1].prompt =
                    (IF app = "config_prompt" /\ "system_message" \in DOMAIN config
                     THEN <<[type |-> "system", content |-> config["system_message"], tool_calls |-> 0]>>
                     ELSE <<>>) \o input

\* C18 witness: a run configured with model and system message is over: the
\* model was passed three messages, the first a SystemMessage, and the state
\* holds the input and the response.
C18_Witness ==
    /\ app = "config_prompt" /\ pc = END
    /\ DOMAIN config = {"model", "system_message"}
    /\ Len(invoked[1].prompt) = 3 /\ invoked[1].prompt[1].type = "system"
    /\ Len(state.messages) = 3 /\ state.messages[1].type = "human"

\* The update the node that is due returns, for every answer of its model.
DueUpdates ==
    IF pc = "agent" /\ app \in Apps
    THEN {call_model(app, state, k) : k \in ModelToolCalls(app)}
    ELSE IF pc = "action" THEN {tool_node(app, state)}
    ELSE IF pc = "model" /\ app \in StreamApps THEN {my_node(app, state).update}
    ELSE IF pc = "model" /\ ~KeyError(app, config)
         THEN {_call_model(app, config, state, reply).update : reply \in Replies}
    ELSE IF pc = "agent"
         THEN {react_agent(state, k, stream).update : k \in ReactToolCalls, stream \in TokenStreams}
    ELSE IF pc = "tools"
         THEN {react_tools(state, streams).update :
                  streams \in [1..Last(state.messages).tool_calls -> TokenStreams]}
    ELSE {}

\* C19: in every reachable state of every graph the state has exactly the
\* declared field messages, and every update a node returns references only
\* that field.
C19_OnlyDeclaredFields ==
    /\ DOMAIN state = {"messages"}
    /\ \A i \in 1..Len(yielded) : StreamMode(app) = "values" => DOMAIN yielded[i] = {"messages"}
    /\ \A update \in DueUpdates : DOMAIN update \subseteq {"messages"}

\* C19 witness: "action" of the pydantic graph has merged its update and
\* "agent" is due again.
C19_Witness ==
    /\ app = "state_model" /\ pc = "agent"
    /\ executed = <<"agent", "action">>
    /\ DOMAIN state = {"messages"}
    /\ Cardinality(DueUpdates) = MaxToolCalls + 1

\* A state the pydantic AgentState accepts: every element of messages is a
\* message.
ValidAgentState(st) ==
    \A i \in 1..Len(st.messages) : st.messages[i].type \in {"human", "ai", "tool", "system"}

\* C20: with the pydantic state every node execution starts from a validated
\* state, and when the state, the initial input included, fails validation
\* the node that is due is not executed and the state is not updated.
C20_ValidatedBeforeEachNode ==
    [][(app = "state_model" /\ pc \in {"agent", "action"}) =>
          /\ NodeStep => ValidAgentState(state)
          /\ ~ValidAgentState(state) =>
                (executed' = executed /\ state' = state /\ pc' \in {pc, "error"})]_vars

\* C20 witness: a run whose input holds an element that is no message ended
\* in error before its first node; the state holds what the input applied.
C20_Witness ==
    /\ app = "state_model" /\ pc = "error"
    /\ input = <<NotAMessage>>
    /\ executed = <<>>
    /\ state.messages = input

\* C21: when the consumer stops iterating before END the run is over: the
\* stop itself and every later step execute no node of the run, extend what
\* the run has yielded by no value and write no checkpoint; the next node step
\* belongs to a new run.
C21_CeasingStopsTheRun ==
    [][(pc' = "cancelled" \/ pc = "cancelled") =>
          /\ executed' \in {executed, <<>>}
          /\ memory' = memory
          /\ ~(IsPrefix(yielded, yielded') /\ yielded' # yielded)]_vars

\* C21 witness: a run on thread "2" was left after its first value, before
\* "agent": nothing is stored for it, while an earlier run on the thread had
\* stored its checkpoint.
C21_Witness ==
    /\ app = "persistence" /\ config.thread_id = "2"
    /\ pc = "cancelled"
    /\ executed = <<>>
    /\ Len(yielded) = 1
    /\ Len(memory["2"]) = 1
    /\ Len(log["2"]) = 3

\* C22 as stated: no graph is cyclic: in every run each node is executed at
\* most once.
C22_EachNodeAtMostOnce ==
    \A i, j \in 1..Len(executed) : i # j => executed[i] # executed[j]

\* C22 amended: only the linear graphs execute each node at most once.  The
\* agent/action graphs and the prebuilt agent are cyclic: a node is executed
\* again after the other node of the cycle has been executed in between.
C22_OnlyLinearGraphsAreAcyclic ==
    /\ app \in LinearApps => (Len(executed) <= 1 /\ \A i \in 1..Len(executed) : executed[i] = "model")
    /\ \A i \in 1..Len(executed) - 1 : executed[i] # executed[i + 1]
    /\ \A i \in 1..Len(executed) - 2 : executed[i] = executed[i + 2]

\* C22 witness: a run of the tool-bound graph has executed "agent" and
\* "action" twice each.
C22_Witness ==
    /\ app = "state_model"
    /\ executed = <<"agent", "action", "agent", "action">>
    /\ pc = "agent"

\* C23 as documented: in the persistence notebook the model that "agent" calls
\* has the tools bound, so that some answer of it carries a tool call and
\* "action" can run.
C23_AgentCanRequestTool ==
    (app = "persistence" /\ pc = "agent") =>
        /\ InvokedModelTools(app) = tools
        /\ \E k \in ModelToolCalls(app) : k >= 1

\* C24: the first node a run of the agent/action graph executes is "agent":
\* before the first "agent" execution "action" is neither executed nor due and
\* the run is not at END.
C24_AgentRunsFirst ==
    /\ executed # <<>> => executed[1] = "agent"
    /\ (executed = <<>> /\ pc \notin {"idle", "error"}) => pc = "agent"

\* C24 witness: the second run on a thread is at END after its one node,
\* "agent".
C24_Witness ==
    /\ app = "persistence" /\ pc = END
    /\ executed = <<"agent">>
    /\ Len(earlier) = 2
    /\ Len(state.messages) = 4

\* C25: _set_env(var) prompts exactly when var is absent from the environment
\* or set to the empty string.  When var holds a non-empty value the call
\* does not prompt and leaves the whole environment as it was; otherwise it
\* sets var to what was entered.
C25_SetEnvPromptsIffUnset ==
    [][LET var == called'.var
       IN /\ called'.prompted <=> (var \notin DOMAIN environ \/ environ[var] = "")
          /\ ~called'.prompted => environ' = environ
          /\ called'.prompted =>
                /\ var \in DOMAIN environ'
                /\ environ'[var] = called'.entered]_vars

\* C25 witness: the key was set to the empty string, the call prompted and
\* set it to what was entered, with the other key still absent.
C25_Witness ==
    /\ called = [var |-> "ANTHROPIC_API_KEY", prompted |-> TRUE, entered |-> "sk-2"]
    /\ environ_get(environ, "ANTHROPIC_API_KEY") = "sk-2"
    /\ "OPENAI_API_KEY" \notin DOMAIN environ
    /\ environ_get(environ, "HOME") = ""

\* The number of executions of node n in the current run.
Executions(n) == Cardinality({i \in 1..Len(executed) : executed[i] = n})

\* C26: the nodes a run of the agent/action graph executes alternate
\* agent, action, agent, ..., starting with "agent"; "action" is due only in
\* a state whose last message is the response of "agent", carrying at least
\* one tool call; and a run at END has executed "agent" once more than
\* "action".
C26_AgentAndActionAlternate ==
    app \in Apps =>
        /\ \A i \in 1..Len(executed) :
               executed[i] = (IF i % 2 = 1 THEN "agent" ELSE "action")
        /\ pc = "action" =>
               /\ executed # <<>> /\ Last(executed) = "agent"
               /\ Last(state.messages).type = "ai"
               /\ Last(state.messages).tool_calls >= 1
        /\ pc = END => Executions("agent") = Executions("action") + 1

\* C26 witness: a run at END after agent, action, agent, action, agent.
C26_Witness ==
    /\ app = "state_model" /\ pc = END
    /\ executed = <<"agent", "action", "agent", "action", "agent">>
    /\ Last(state.messages) = AIMessage(0)

\* C27: should_continue is evaluated on the state "agent" leaves behind, and
\* for every input, the empty list and a state loaded from a checkpoint
\* included, that state's messages are the messages "agent" was given
\* followed by the response of its model call: they are not empty and
\* messages[-1] is that response.
C27_ShouldContinueSeesAgentResponse ==
    (app \in Apps /\ executed # <<>> /\ Last(executed) = "agent") =>
        /\ invoked # <<>>
        /\ state.messages # <<>>
        /\ Last(state.messages) = Last(invoked).response
        /\ state.messages = Last(invoked).prompt \o <<Last(invoked).response>>

\* C27 witness: a run given the empty list on a thread that has a checkpoint:
\* "agent" was given the checkpoint's messages alone.
C27_Witness ==
    /\ app = "persistence" /\ input = <<>>
    /\ executed = <<"agent">>
    /\ Len(earlier) = 2
    /\ Len(state.messages) = 3

\* C27 witness on no state at all: the empty list on the graph without
\* checkpointer.
C27_WitnessEmpty ==
    /\ app = "state_model" /\ input = <<>>
    /\ executed = <<"agent">> /\ pc = "action"
    /\ Len(state.messages) = 1

\* C28: the checkpoints of a thread are ordered by strictly increasing
\* sequence position, the positions going on from one run to the next, and
\* the messages of a checkpoint are a prefix of the messages of every later
\* checkpoint of the thread.
C28_CheckpointsOrderedAndGrowing ==
    \A T \in Threads : \A i, j \in 1..Len(memory[T]) :
        /\ memory[T][i].thread_id = T
        /\ i < j =>
              /\ memory[T][i].seq < memory[T][j].seq
              /\ IsPrefix(memory[T][i].state.messages, memory[T][j].state.messages)

\* C28 witness: a thread with the checkpoints of three runs at positions
\* 1, 2, 3, holding two, four and six messages, while another thread has one.
C28_Witness ==
    \E T, U \in Threads :
        /\ T # U /\ Len(memory[U]) = 1
        /\ [i \in 1..Len(memory[T]) |-> memory[T][i].seq] = <<1, 2, 3>>
        /\ [i \in 1..Len(memory[T]) |-> Len(memory[T][i].state.messages)] = <<2, 4, 6>>

\* C29: the state a synchronous call returns is the state of the run at END.
\* For a run of the same graph on the same input, checkpoints and node
\* outputs, that state is the last value the stream of values yields and,
\* with a checkpointer, the state of the thread's latest checkpoint once the
\* run is over.
C29_ReturnedIsLastValueAndLatestCheckpoint ==
    (app \in Apps /\ pc = END) =>
        /\ yielded # <<>>
        /\ yielded[Len(yielded)] = state
        /\ HasCheckpointer(app) =>
              /\ memory[thread_id(config)] # <<>>
              /\ GetLatest(memory, thread_id(config)).state = state

\* C29 witness: the second run on thread "3" is over; four messages are in
\* the state, in the last value yielded and in the thread's second checkpoint.
C29_Witness ==
    /\ app = "persistence" /\ pc = END /\ config.thread_id = "3"
    /\ Len(yielded) = 2
    /\ Len(yielded[2].messages) = 4
    /\ Len(memory["3"]) = 2
    /\ memory["2"] = <<>>

\* C30: in the graphs with a configurable model, a run configured with a
\* model name that is no key of models fails in node "model" before any model
\* is invoked: the run is about to execute "model" or has ended in error, no
\* node has completed, no model was invoked, and the messages of the state
\* are the input messages.
C30_UnknownModelNameFails ==
    (/\ app \in {"config_model", "config_prompt"}
     /\ "model" \in DOMAIN config
     /\ config["model"] \notin {"anthropic", "openai"}) =>
        /\ pc \in {"model", "error"}
        /\ executed = <<>>
        /\ invoked = <<>>
        /\ state.messages = input

\* C30 witness: a run configured with the model "mistral" and a system
\* message, on two input messages, has ended in error.
C30_Witness ==
    /\ app = "config_prompt" /\ pc = "error"
    /\ DOMAIN config = {"model", "system_message"}
    /\ config["model"] = "mistral"
    /\ Len(input) = 2 /\ state.messages = input
    /\ invoked = <<>>

====
